---- MODULE Spec2Model ----
(***************************************************************************)
(* SmartCityHub web server (src/app.py).                                   *)
(*                                                                         *)
(* Two state machines over one set of variables:                           *)
(*   Spec        the sheet-backed read side: the process-wide cached       *)
(*               gspread client, get_gspread_client / get_sheet_data run   *)
(*               statement by statement by concurrent request handlers,    *)
(*               and the /bins, /api/bins, /lights, /api/lights handlers.  *)
(*   SpecIngest  the write side: POST /api/telemetry and                   *)
(*               POST /api/evidence/upload with the files they keep.       *)
(***************************************************************************)
EXTENDS Naturals, Sequences, FiniteSets

VARIABLES
    credsFile,       \* the file at GOOGLE_CREDS_FILE: "absent", "valid", "invalid"
    sheet,           \* the remote spreadsheet: [up, rows]
    binsFile,        \* data/bins_data.json: [kind, rows]
    lightsFile,      \* data/lights_data.json: [kind, rows]
    gspread_client,  \* the module global _gspread_client (None or a handle)
    nextHandle,      \* identity of the next client object constructed
    pc,              \* per handler thread: the statement it is about to run
    built,           \* per handler thread: what its own service_account() call returned
    ret,             \* per handler thread: what get_gspread_client() returned to it
    failedBefore,    \* history: some get_gspread_client call has returned None at line 32 or 41
    later,           \* history, per thread: its current call began after such a return
    resp,            \* the HTTP response a GET view sends in this step (NoResp: none)
    telemetryLog,    \* data/telemetry_log.json: the characters of the file
    initLog,         \* history: the log's contents when the process started
    accepted,        \* history: the telemetry bodies answered HTTP 200, in order
    evidenceDir,     \* the evidence files under data/: file name -> bytes
    uploads,         \* history: the uploads answered HTTP 200, in order
    lastPost,        \* the most recent POST request
    ingestResp       \* the response to it

readVars == <<credsFile, sheet, binsFile, lightsFile, gspread_client, nextHandle,
              pc, built, ret, resp>>
histVars == <<failedBefore, later>>
ingestVars == <<telemetryLog, initLog, accepted, evidenceDir, uploads,
                lastPost, ingestResp>>
vars == <<readVars, histVars, ingestVars>>

----------------------------------------------------------------------------
\* Bounds of the model.

\* Concurrent request-handling threads.
NumThreads == 2
\* Client objects the process may construct in one run.
MaxHandles == 2
\* Requests served by the ingest side in one run.
MaxPosts == 3

Threads == 1..NumThreads

\* Python's None for the client handle; handles are 1, 2, ...
None == 0

\* Row sets a sheet tab or a fallback file may hold.
SheetRows == {<< >>, <<"s1">>}
FileRows == {<< >>, <<"f1">>}

CredsStates == {"absent", "valid", "invalid"}
SheetStates == {[up |-> FALSE, rows |-> << >>]} \cup {[up |-> TRUE, rows |-> r] : r \in SheetRows}
FileStates == {[kind |-> "absent", rows |-> << >>], [kind |-> "malformed", rows |-> << >>]}
                 \cup {[kind |-> "json", rows |-> r] : r \in FileRows}

NoResp == [route |-> "", status |-> 0, key |-> "", rows |-> << >>]

Unavailable == [ok |-> FALSE, rows |-> << >>]

----------------------------------------------------------------------------
\* The state after the module is imported: no client, no request in progress,
\* nothing received yet.

NoFile == [kind |-> "absent", rows |-> << >>]
NoPost == [route |-> "", body |-> << >>, has_device |-> FALSE, device_id |-> << >>,
           has_ts |-> FALSE, timestamp |-> << >>, file |-> ""]
NoIngestResp == [status |-> 0, status_text |-> "", detail |-> << >>]

InitProcess ==
    /\ gspread_client = None
    /\ nextHandle = 1
    /\ pc = [t \in Threads |-> "idle"]
    /\ built = [t \in Threads |-> None]
    /\ ret = [t \in Threads |-> None]
    /\ failedBefore = FALSE
    /\ later = [t \in Threads |-> FALSE]
    /\ resp = NoResp

InitIngestIdle ==
    /\ telemetryLog = << >>
    /\ initLog = << >>
    /\ accepted = << >>
    /\ evidenceDir = << >>
    /\ uploads = << >>
    /\ lastPost = NoPost
    /\ ingestResp = NoIngestResp

\* The deployment of the bins views: any credentials file, any sheet, any
\* bins fallback file.
Init ==
    /\ InitProcess
    /\ InitIngestIdle
    /\ credsFile \in CredsStates
    /\ sheet \in SheetStates
    /\ binsFile \in FileStates
    /\ lightsFile = NoFile

\* The deployment of the lights views: any lights fallback file too.
InitLights ==
    /\ InitProcess
    /\ InitIngestIdle
    /\ credsFile \in CredsStates
    /\ sheet \in SheetStates
    /\ binsFile = NoFile
    /\ lightsFile \in FileStates

\* The deployment in which the client cache is studied: a reachable sheet.
InitCache ==
    /\ InitProcess
    /\ InitIngestIdle
    /\ credsFile \in CredsStates
    /\ sheet = [up |-> TRUE, rows |-> <<"s1">>]
    /\ binsFile = NoFile
    /\ lightsFile = NoFile

----------------------------------------------------------------------------
\* The environment: the credentials file and the remote sheet change under
\* the running process.

SetCreds(c) ==
    /\ c # credsFile
    /\ credsFile' = c
    /\ resp' = NoResp
    /\ UNCHANGED <<sheet, binsFile, lightsFile, gspread_client, nextHandle,
                   pc, built, ret, ingestVars>>

SetSheet(s) ==
    /\ s # sheet
    /\ sheet' = s
    /\ resp' = NoResp
    /\ UNCHANGED <<credsFile, binsFile, lightsFile, gspread_client, nextHandle,
                   pc, built, ret, ingestVars>>

----------------------------------------------------------------------------
\* A request arrives on an idle handler thread.


\* Flask dispatches /bins or /api/bins.  Both views start with the same call,
\* get_sheet_data(SHEET_NAME_BINS), whose first statement calls
\* get_gspread_client; they differ only in what they do with its result, so
\* which of the two views is running is first told apart when it returns.
Request(t) ==
    /\ pc[t] = "idle"
    /\ pc' = [pc EXCEPT ![t] = "L25"]
    /\ resp' = NoResp
    /\ UNCHANGED <<credsFile, sheet, binsFile, lightsFile, gspread_client,
                   nextHandle, built, ret, ingestVars>>

----------------------------------------------------------------------------
\* get_gspread_client, one statement per step.  Every read of the global is
\* a read of the shared variable at the moment the statement runs.

\* Faulty variant: the cache is not consulted; every call constructs.
L25_no_cache(t) ==
    /\ pc[t] = "L25"
    /\ pc' = [pc EXCEPT ![t] = "L29"]
    /\ resp' = NoResp
    /\ UNCHANGED <<credsFile, sheet, binsFile, lightsFile, gspread_client,
                   nextHandle, built, ret, ingestVars>>

\* if _gspread_client:
L25(t) ==
    /\ pc[t] = "L25"
    /\ pc' = [pc EXCEPT ![t] = IF gspread_client # None THEN "L26" ELSE "L29"]
    /\ resp' = NoResp
    /\ UNCHANGED <<credsFile, sheet, binsFile, lightsFile, gspread_client,
                   nextHandle, built, ret, ingestVars>>

\* return _gspread_client
L26(t) ==
    /\ pc[t] = "L26"
    /\ ret' = [ret EXCEPT ![t] = gspread_client]
    /\ pc' = [pc EXCEPT ![t] = "L46"]
    /\ resp' = NoResp
    /\ UNCHANGED <<credsFile, sheet, binsFile, lightsFile, gspread_client,
                   nextHandle, built, ingestVars>>

\* Faulty variant: a failure is remembered; once a call has failed, line 29 gives up
\* without looking at the file.
L29_sticky(t) ==
    /\ pc[t] = "L29"
    /\ IF credsFile = "absent" \/ failedBefore
         THEN /\ ret' = [ret EXCEPT ![t] = None]
              /\ pc' = [pc EXCEPT ![t] = "L46"]
         ELSE /\ ret' = ret
              /\ pc' = [pc EXCEPT ![t] = "L36"]
    /\ resp' = NoResp
    /\ UNCHANGED <<credsFile, sheet, binsFile, lightsFile, gspread_client,
                   nextHandle, built, ingestVars>>

\* if not creds_path.exists(): return None
L29(t) ==
    /\ pc[t] = "L29"
    /\ IF credsFile = "absent"
         THEN /\ ret' = [ret EXCEPT ![t] = None]
              /\ pc' = [pc EXCEPT ![t] = "L46"]
         ELSE /\ ret' = ret
              /\ pc' = [pc EXCEPT ![t] = "L36"]
    /\ resp' = NoResp
    /\ UNCHANGED <<credsFile, sheet, binsFile, lightsFile, gspread_client,
                   nextHandle, built, ingestVars>>

\* gspread.service_account(filename=...): a new client object, or an exception
\* when the file cannot be used (it may have gone or changed since line 29).
L36call(t) ==
    /\ pc[t] = "L36"
    /\ IF credsFile = "valid"
         THEN /\ nextHandle <= MaxHandles
              /\ built' = [built EXCEPT ![t] = nextHandle]
              /\ nextHandle' = nextHandle + 1
              /\ pc' = [pc EXCEPT ![t] = "L36store"]
         ELSE /\ built' = built
              /\ nextHandle' = nextHandle
              /\ pc' = [pc EXCEPT ![t] = "L40"]
    /\ resp' = NoResp
    /\ UNCHANGED <<credsFile, sheet, binsFile, lightsFile, gspread_client,
                   ret, ingestVars>>

\* _gspread_client = <the new client>
L36store(t) ==
    /\ pc[t] = "L36store"
    /\ gspread_client' = built[t]
    /\ pc' = [pc EXCEPT ![t] = "L37"]
    /\ resp' = NoResp
    /\ UNCHANGED <<credsFile, sheet, binsFile, lightsFile, nextHandle,
                   built, ret, ingestVars>>

\* return _gspread_client
L37(t) ==
    /\ pc[t] = "L37"
    /\ ret' = [ret EXCEPT ![t] = gspread_client]
    /\ pc' = [pc EXCEPT ![t] = "L46"]
    /\ resp' = NoResp
    /\ UNCHANGED <<credsFile, sheet, binsFile, lightsFile, gspread_client,
                   nextHandle, built, ingestVars>>

\* except Exception: _gspread_client = None; return None
L40(t) ==
    /\ pc[t] = "L40"
    /\ gspread_client' = None
    /\ ret' = [ret EXCEPT ![t] = None]
    /\ pc' = [pc EXCEPT ![t] = "L46"]
    /\ resp' = NoResp
    /\ UNCHANGED <<credsFile, sheet, binsFile, lightsFile, nextHandle,
                   built, ingestVars>>

----------------------------------------------------------------------------
\* get_sheet_data from the point where get_gspread_client has returned
\* `client`: None when there is no client or the read raises, else the rows.

get_sheet_data(client) ==
    IF client = None THEN Unavailable
    ELSE IF sheet.up THEN [ok |-> TRUE, rows |-> sheet.rows]
    ELSE Unavailable

\* The fallback read shared by the page and lights handlers: exists() then
\* json.load, which raises on a malformed file; [] when the file is absent.
read_fallback(file) ==
    IF file.kind = "absent" THEN [raised |-> FALSE, rows |-> << >>]
    ELSE IF file.kind = "json" THEN [raised |-> FALSE, rows |-> file.rows]
    ELSE [raised |-> TRUE, rows |-> << >>]

\* An exception that leaves a view function: Flask answers 500.
ServerError(route) == [route |-> route, status |-> 500, key |-> "exception", rows |-> << >>]

\* Faulty variant: `if not bins_data` where the code tests `bins_data is None`.
bins_page_response_falsy(client) ==
    LET bins_data == get_sheet_data(client)
        local == read_fallback(binsFile)
    IN  IF bins_data.ok /\ bins_data.rows # << >>
          THEN [route |-> "/bins", status |-> 200, key |-> "bins", rows |-> bins_data.rows]
        ELSE IF local.raised THEN ServerError("/bins")
        ELSE [route |-> "/bins", status |-> 200, key |-> "bins", rows |-> local.rows]

bins_page_response(client) ==
    LET bins_data == get_sheet_data(client)
        local == read_fallback(binsFile)
    IN  IF bins_data.ok THEN [route |-> "/bins", status |-> 200, key |-> "bins", rows |-> bins_data.rows]
        ELSE IF local.raised THEN ServerError("/bins")
        ELSE [route |-> "/bins", status |-> 200, key |-> "bins", rows |-> local.rows]

\* Faulty variant: the API applies the page's fallback-to-file policy.
bins_api_response_fallback(client) ==
    LET data == get_sheet_data(client)
        local == read_fallback(binsFile)
    IN  IF data.ok THEN [route |-> "/api/bins", status |-> 200, key |-> "data", rows |-> data.rows]
        ELSE IF local.raised \/ local.rows = << >>
          THEN [route |-> "/api/bins", status |-> 503, key |-> "error", rows |-> << >>]
        ELSE [route |-> "/api/bins", status |-> 200, key |-> "data", rows |-> local.rows]

bins_api_response(client) ==
    LET data == get_sheet_data(client)
    IN  IF ~data.ok THEN [route |-> "/api/bins", status |-> 503, key |-> "error", rows |-> << >>]
        ELSE [route |-> "/api/bins", status |-> 200, key |-> "data", rows |-> data.rows]

lights_page_response ==
    LET local == read_fallback(lightsFile)
    IN  IF local.raised THEN ServerError("/lights")
        ELSE [route |-> "/lights", status |-> 200, key |-> "lights", rows |-> local.rows]

\* Faulty variant: the lights API tries the sheet first, as the bins page does.
lights_api_response_sheet ==
    LET data == get_sheet_data(gspread_client)
        local == read_fallback(lightsFile)
    IN  IF data.ok THEN [route |-> "/api/lights", status |-> 200, key |-> "data", rows |-> data.rows]
        ELSE IF local.raised THEN ServerError("/api/lights")
        ELSE [route |-> "/api/lights", status |-> 200, key |-> "data", rows |-> local.rows]

lights_api_response ==
    LET local == read_fallback(lightsFile)
    IN  IF local.raised THEN ServerError("/api/lights")
        ELSE [route |-> "/api/lights", status |-> 200, key |-> "data", rows |-> local.rows]

\* The view returns: the response goes out and the thread's locals die.
bins_page(t) ==
    /\ pc[t] = "L46"
    /\ resp' = bins_page_response(ret[t])
    /\ pc' = [pc EXCEPT ![t] = "idle"]
    /\ built' = [built EXCEPT ![t] = None]
    /\ ret' = [ret EXCEPT ![t] = None]
    /\ UNCHANGED <<credsFile, sheet, binsFile, lightsFile, gspread_client,
                   nextHandle, ingestVars>>

bins_api(t) ==
    /\ pc[t] = "L46"
    /\ resp' = bins_api_response(ret[t])
    /\ pc' = [pc EXCEPT ![t] = "idle"]
    /\ built' = [built EXCEPT ![t] = None]
    /\ ret' = [ret EXCEPT ![t] = None]
    /\ UNCHANGED <<credsFile, sheet, binsFile, lightsFile, gspread_client,
                   nextHandle, ingestVars>>

\* The lights views touch nothing shared: each is one step of its thread.
lights_page(t) ==
    /\ pc[t] = "idle"
    /\ resp' = lights_page_response
    /\ UNCHANGED <<credsFile, sheet, binsFile, lightsFile, gspread_client,
                   nextHandle, pc, built, ret, ingestVars>>

lights_api(t) ==
    /\ pc[t] = "idle"
    /\ resp' = lights_api_response
    /\ UNCHANGED <<credsFile, sheet, binsFile, lightsFile, gspread_client,
                   nextHandle, pc, built, ret, ingestVars>>

----------------------------------------------------------------------------

\* The history of a step, recorded where the cache is studied: whether a call
\* has by now returned None from line 32 (no credentials file) or line 41
\* (construction raised), and which calls in progress began after that.
RecordHistory ==
    /\ failedBefore' = (failedBefore \/ \E t \in Threads :
                            pc[t] \in {"L29", "L40"} /\ pc'[t] = "L46")
    /\ later' = [t \in Threads |->
                    IF pc[t] = "idle" /\ pc'[t] = "L25" THEN failedBefore
                    ELSE IF pc'[t] = "idle" THEN FALSE
                    ELSE later[t]]

NoHistory == UNCHANGED histVars

Next ==
    \/ \E c \in CredsStates : SetCreds(c) /\ NoHistory
    \/ \E s \in SheetStates : SetSheet(s) /\ NoHistory
    \/ \E t \in Threads : Request(t) /\ NoHistory
    \/ \E t \in Threads : L25(t) /\ NoHistory
    \/ \E t \in Threads : L26(t) /\ NoHistory
    \/ \E t \in Threads : L29(t) /\ NoHistory
    \/ \E t \in Threads : L36call(t) /\ NoHistory
    \/ \E t \in Threads : L36store(t) /\ NoHistory
    \/ \E t \in Threads : L37(t) /\ NoHistory
    \/ \E t \in Threads : L40(t) /\ NoHistory
    \/ \E t \in Threads : bins_page(t) /\ NoHistory
    \/ \E t \in Threads : bins_api(t) /\ NoHistory

NextLights ==
    \/ \E c \in CredsStates : SetCreds(c) /\ NoHistory
    \/ \E s \in SheetStates : SetSheet(s) /\ NoHistory
    \/ \E t \in Threads : Request(t) /\ NoHistory
    \/ \E t \in Threads : L25(t) /\ NoHistory
    \/ \E t \in Threads : L26(t) /\ NoHistory
    \/ \E t \in Threads : L29(t) /\ NoHistory
    \/ \E t \in Threads : L36call(t) /\ NoHistory
    \/ \E t \in Threads : L36store(t) /\ NoHistory
    \/ \E t \in Threads : L37(t) /\ NoHistory
    \/ \E t \in Threads : L40(t) /\ NoHistory
    \/ \E t \in Threads : bins_page(t) /\ NoHistory
    \/ \E t \in Threads : bins_api(t) /\ NoHistory
    \/ \E t \in Threads : lights_page(t) /\ NoHistory
    \/ \E t \in Threads : lights_api(t) /\ NoHistory

NextCache ==
    \/ \E c \in CredsStates : SetCreds(c) /\ RecordHistory
    \/ \E t \in Threads : Request(t) /\ RecordHistory
    \/ \E t \in Threads : L25(t) /\ RecordHistory
    \/ \E t \in Threads : L26(t) /\ RecordHistory
    \/ \E t \in Threads : L29(t) /\ RecordHistory
    \/ \E t \in Threads : L36call(t) /\ RecordHistory
    \/ \E t \in Threads : L36store(t) /\ RecordHistory
    \/ \E t \in Threads : L37(t) /\ RecordHistory
    \/ \E t \in Threads : L40(t) /\ RecordHistory
    \/ \E t \in Threads : bins_page(t) /\ RecordHistory
    \/ \E t \in Threads : bins_api(t) /\ RecordHistory

\* The bins views under concurrent handlers and a changing environment.
Spec == Init /\ [][Next]_vars

\* The same with the lights views.
SpecLights == InitLights /\ [][NextLights]_vars

\* The client cache under concurrent handlers and a changing credentials file.
SpecCache == InitCache /\ [][NextCache]_vars

----------------------------------------------------------------------------
\* POST /api/telemetry.  Texts are sequences of characters (a key and a
\* literal count as one character each).

LF == "\\n"
Space == " "

\* Request bodies: an object written compactly, the same object written
\* with spaces, a number, and a truncated object.
TelemetryBodies ==
    { <<"{", "\"a\"", ":", "1", "}">>,
      <<"{", Space, "\"a\"", Space, ":", "1", Space, "}">>,
      <<"2">>,
      <<"{", "\"a\"", ":">> }

JsonNumbers == {"1", "2"}
JsonKeys == {"\"a\""}
BadJson == [kind |-> "error", key |-> "", num |-> ""]

\* request.get_json() on an application/json body: the parsed value;
\* insignificant whitespace is skipped; a body that is not JSON raises
\* BadRequest.
get_json(body) ==
    LET text == SelectSeq(body, LAMBDA c : c # Space)
    IN  IF Len(text) = 1 /\ text[1] \in JsonNumbers
          THEN [kind |-> "int", key |-> "", num |-> text[1]]
        ELSE IF /\ Len(text) = 5
                /\ text[1] = "{" /\ text[2] \in JsonKeys /\ text[3] = ":"
                /\ text[4] \in JsonNumbers /\ text[5] = "}"
          THEN [kind |-> "dict", key |-> text[2], num |-> text[4]]
        ELSE BadJson

\* json.dumps(data) with the default separators (", " and ": ").
dumps(data) ==
    IF data.kind = "int" THEN <<data.num>>
    ELSE <<"{", data.key, ":", Space, data.num, "}">>

\* Faulty variant: the log is opened with mode "w", which truncates it.
write_log_truncating(log, data) == dumps(data) \o <<LF>>

\* with open("data/telemetry_log.json", "a") as f: f.write(json.dumps(data) + "\n")
write_log(log, data) == log \o dumps(data) \o <<LF>>

receive_telemetry(body) ==
    LET data == get_json(body)
    IN  /\ lastPost' = [NoPost EXCEPT !.route = "/api/telemetry", !.body = body]
        /\ IF data = BadJson
             THEN /\ ingestResp' = [status |-> 400, status_text |-> "error",
                                    detail |-> <<"BadRequest">>]
                  /\ UNCHANGED <<telemetryLog, accepted>>
             ELSE /\ Len(accepted) < MaxPosts
                  /\ telemetryLog' = write_log(telemetryLog, data)
                  /\ accepted' = Append(accepted, body)
                  /\ ingestResp' = [status |-> 200, status_text |-> "success",
                                    detail |-> <<"Telemetry received">>]
        /\ UNCHANGED <<readVars, histVars, initLog, evidenceDir, uploads>>

----------------------------------------------------------------------------
\* POST /api/evidence/upload.

\* The names app.py binds by its import statements.
Imports == {"Flask", "render_template", "jsonify", "request", "json", "os",
            "gspread", "Path"}

DeviceIds == { <<"B", Space, "1">>, <<"B", ":", "1">> }
Timestamps == { <<"9", ":", "0">>, <<"9", Space, "0">> }
\* The bytes of a file part; "" is a request without one.
FileParts == {"img1", "img2"}
\* What str(int(time.time())) would give.
ClockText == <<"1", "7">>

\* request.form.get(...) gives None for a missing field: [has |-> FALSE].
Forms ==
    [ has_device : BOOLEAN, device_id : DeviceIds \cup {<< >>},
      has_ts : BOOLEAN, timestamp : Timestamps \cup {<< >>},
      file : FileParts \cup {""} ]
RealForms ==
    { f \in Forms : /\ (~f.has_device => f.device_id = << >>)
                    /\ (f.has_device => f.device_id # << >>)
                    /\ (~f.has_ts => f.timestamp = << >>)
                    /\ (f.has_ts => f.timestamp # << >>) }

\* str.replace(old, new) for one-character old and new.
replace(str, old, new) ==
    [i \in 1..Len(str) |-> IF str[i] = old THEN new ELSE str[i]]

unknown == <<"u", "n", "k", "n", "o", "w", "n">>

\* (device_id or "unknown").replace(" ", "_")
safe_device(form) ==
    replace(IF form.has_device /\ form.device_id # << >> THEN form.device_id ELSE unknown,
            Space, "_")

\* (timestamp or str(int(time.time()))).replace(":", "-"): the right operand
\* of `or` is evaluated only for a missing timestamp, and then the name
\* `time` must be bound.
safe_ts(form) ==
    IF form.has_ts /\ form.timestamp # << >>
      THEN [raised |-> FALSE, text |-> replace(form.timestamp, ":", "-")]
    ELSE IF "time" \in Imports
      THEN [raised |-> FALSE, text |-> replace(ClockText, ":", "-")]
    ELSE [raised |-> TRUE, text |-> << >>]

\* f"evidence_{safe_device}_{safe_ts}.jpg"
filename(device, ts) == <<"evidence_">> \o device \o <<"_">> \o ts \o <<".jpg">>

\* Faulty variant: an existing file is kept (exclusive create) instead of replaced.
save_keep_first(dir, name, bytes) ==
    IF name \in DOMAIN dir THEN dir
    ELSE [n \in DOMAIN dir \cup {name} |-> IF n = name THEN bytes ELSE dir[n]]

\* file.save(filepath): create or replace the file of that name.
save(dir, name, bytes) ==
    [n \in DOMAIN dir \cup {name} |-> IF n = name THEN bytes ELSE dir[n]]

upload_evidence(form) ==
    LET ts == safe_ts(form)
        name == filename(safe_device(form), ts.text)
    IN  /\ lastPost' = [route |-> "/api/evidence/upload", body |-> << >>,
                        has_device |-> form.has_device, device_id |-> form.device_id,
                        has_ts |-> form.has_ts, timestamp |-> form.timestamp,
                        file |-> form.file]
        /\ IF form.file = ""
             THEN /\ ingestResp' = [status |-> 400, status_text |-> "error",
                                    detail |-> <<"No file provided">>]
                  /\ UNCHANGED <<evidenceDir, uploads>>
           ELSE IF ts.raised
             THEN /\ ingestResp' = [status |-> 400, status_text |-> "error",
                                    detail |-> <<"name 'time' is not defined">>]
                  /\ UNCHANGED <<evidenceDir, uploads>>
           ELSE /\ Len(uploads) < MaxPosts
                /\ evidenceDir' = save(evidenceDir, name, form.file)
                /\ uploads' = Append(uploads, [form |-> form, saved |-> name])
                /\ ingestResp' = [status |-> 200, status_text |-> "success",
                                  detail |-> name]
        /\ UNCHANGED <<readVars, histVars, telemetryLog, initLog, accepted>>

\* The log the process finds when it starts: none, or one old line.
InitTelemetry ==
    /\ InitProcess
    /\ credsFile = "absent"
    /\ sheet = [up |-> FALSE, rows |-> << >>]
    /\ binsFile = NoFile
    /\ lightsFile = NoFile
    /\ telemetryLog \in {<< >>, <<"0", LF>>}
    /\ initLog = telemetryLog
    /\ accepted = << >>
    /\ evidenceDir = << >>
    /\ uploads = << >>
    /\ lastPost = NoPost
    /\ ingestResp = NoIngestResp

InitEvidence ==
    /\ InitProcess
    /\ InitIngestIdle
    /\ credsFile = "absent"
    /\ sheet = [up |-> FALSE, rows |-> << >>]
    /\ binsFile = NoFile
    /\ lightsFile = NoFile

NextTelemetry == \E body \in TelemetryBodies : receive_telemetry(body)

NextEvidence == \E form \in RealForms : upload_evidence(form)

\* The telemetry log under any sequence of postings.
SpecTelemetry == InitTelemetry /\ [][NextTelemetry]_vars

\* The evidence directory under any sequence of uploads.
SpecEvidence == InitEvidence /\ [][NextEvidence]_vars

----------------------------------------------------------------------------
\* The step in which thread t's bins view returns a response for `route`.
Answers(t, route) ==
    pc[t] = "L46" /\ pc'[t] = "idle" /\ resp'.route = route

\* The Sheet Reader's result for the call that returned `client`, read off
\* the state the view runs in.
SheetUnavailable(client) == client = None \/ ~sheet.up

C2_PageAlways200 ==
    [][\A t \in Threads :
          (Answers(t, "/bins") /\ ret[t] = None /\ credsFile = "absent") =>
             /\ resp'.status = 200
             /\ resp'.rows = IF binsFile.kind = "absent" THEN << >> ELSE binsFile.rows]_vars

(* C2 amended: whenever GET /bins answers, it renders the sheet's rows with  *)
(* HTTP 200 if the Sheet Reader succeeded; otherwise the empty dataset with  *)
(* HTTP 200 if the bins fallback file is absent, the file's rows with HTTP   *)
(* 200 if the file holds a JSON array, and HTTP 500 (the unhandled           *)
(* json.load exception) if the file exists but is malformed.                 *)
C2_PageFallback ==
    [][\A t \in Threads : Answers(t, "/bins") =>
          IF ~SheetUnavailable(ret[t])
            THEN resp' = [route |-> "/bins", status |-> 200,
                          key |-> "bins", rows |-> sheet.rows]
            ELSE /\ binsFile.kind = "absent" =>
                      resp' = [route |-> "/bins", status |-> 200,
                               key |-> "bins", rows |-> << >>]
                 /\ binsFile.kind = "json" =>
                      resp' = [route |-> "/bins", status |-> 200,
                               key |-> "bins", rows |-> binsFile.rows]
                 /\ binsFile.kind = "malformed" => resp'.status = 500]_vars

\* C2's case: with no credentials file and no client, /bins rendered the
\* rows of the fallback file.
C2_Witness ==
    /\ resp = [route |-> "/bins", status |-> 200, key |-> "bins", rows |-> <<"f1">>]
    /\ credsFile = "absent"
    /\ gspread_client = None
    /\ binsFile.kind = "json"

\* What a lights view must answer, from the lights fallback file alone.
LightsOutput(route) ==
    IF lightsFile.kind = "malformed"
      THEN [route |-> route, status |-> 500, key |-> "exception", rows |-> << >>]
      ELSE [route |-> route, status |-> 200,
            key |-> IF route = "/lights" THEN "lights" ELSE "data",
            rows |-> IF lightsFile.kind = "absent" THEN << >> ELSE lightsFile.rows]

(* C3: whenever GET /lights or GET /api/lights answers, the answer is a      *)
(* function of the lights fallback file alone (its rows, or empty when it is *)
(* missing), whatever the credentials file, the cached client and the sheet  *)
(* are; and the step neither enters get_gspread_client on any thread nor     *)
(* changes the cached client.                                                *)
C3_LightsIgnoreRemote ==
    [][\A route \in {"/lights", "/api/lights"} : resp'.route = route =>
          /\ resp' = LightsOutput(route)
          /\ gspread_client' = gspread_client
          /\ nextHandle' = nextHandle
          /\ pc' = pc /\ built' = built /\ ret' = ret]_vars

\* C3's case: /api/lights answered with the file's rows while a client is
\* cached and the sheet is up with other rows.
C3_Witness ==
    /\ resp = [route |-> "/api/lights", status |-> 200, key |-> "data", rows |-> <<"f1">>]
    /\ gspread_client # None
    /\ sheet = [up |-> TRUE, rows |-> <<"s1">>]
    /\ credsFile = "valid"

----------------------------------------------------------------------------
\* The client cache.

\* Thread t's get_gspread_client call has returned (get_sheet_data holds its
\* result in `client`).
Returned(t) == pc[t] = "L46"

\* Thread t passed the test of line 25 while the slot was empty and has not
\* yet left get_gspread_client through line 32, 37 or 41.
InFlight(t) == pc[t] \in {"L29", "L36", "L36store", "L40"}

C9_AssignedAtMostOnce ==
    [][gspread_client # None => gspread_client' = gspread_client]_vars

(* C9 amended: the slot is written only by calls that passed the test of     *)
(* line 25 while it was empty, each of which writes it when its construction *)
(* ends (its handle on success, empty on failure), so concurrent first-use   *)
(* calls may replace or empty it.  A call that finds a handle at line 25     *)
(* never writes the slot: from any state in which the slot holds a handle    *)
(* and no such call is in flight, the slot holds that same handle in every   *)
(* later state and no call comes into flight again.                          *)
C9_StableOnceQuiet ==
    [][/\ gspread_client' # gspread_client =>
            \E t \in Threads : pc[t] \in {"L36store", "L40"} /\ pc'[t] # pc[t]
       /\ (gspread_client # None /\ \A t \in Threads : ~InFlight(t)) =>
            /\ gspread_client' = gspread_client
            /\ \A t \in Threads : ~InFlight(t)']_vars

\* C9's case: the slot holds a handle, no first-use call is in flight, a
\* later call has been handed the cached handle, and the credentials file
\* has meanwhile gone.
C9_Witness ==
    /\ gspread_client # None
    /\ \A t \in Threads : ~InFlight(t)
    /\ \E t \in Threads : Returned(t) /\ built[t] = None /\ ret[t] = gspread_client
    /\ credsFile = "absent"

(* C10: the first-use race is harmless: a caller whose own construction      *)
(* succeeded returns a usable handle, never Unavailable.                     *)
C10_BuilderGetsHandle ==
    \A t \in Threads : (Returned(t) /\ built[t] # None) => ret[t] # None

----------------------------------------------------------------------------
\* The telemetry log and the evidence directory.

\* The position of the first line feed of a text, 0 when it has none.
FirstLF(text) ==
    IF \E i \in 1..Len(text) : text[i] = LF
      THEN CHOOSE i \in 1..Len(text) :
              text[i] = LF /\ \A k \in 1..(i - 1) : text[k] # LF
      ELSE 0

\* A text cut into its lines, the line feeds dropped.
RECURSIVE SplitLines(_)
SplitLines(text) ==
    IF text = << >> THEN << >>
    ELSE IF FirstLF(text) = 0 THEN <<text>>
    ELSE <<SubSeq(text, 1, FirstLF(text) - 1)>>
           \o SplitLines(SubSeq(text, FirstLF(text) + 1, Len(text)))

LogKeepsEveryPosting ==
    LET lines == SplitLines(telemetryLog)
        old == SplitLines(initLog)
    IN  /\ telemetryLog = << >> \/ telemetryLog[Len(telemetryLog)] = LF
        /\ Len(lines) = Len(old) + Len(accepted)
        /\ SubSeq(telemetryLog, 1, Len(initLog)) = initLog
        /\ \A j \in 1..Len(accepted) :
              /\ get_json(lines[Len(old) + j]) = get_json(accepted[j])
              /\ get_json(accepted[j]) # BadJson

LogOnlyGrows ==
    /\ Len(telemetryLog') >= Len(telemetryLog)
    /\ SubSeq(telemetryLog', 1, Len(telemetryLog)) = telemetryLog
    /\ IF ingestResp'.status = 200
         THEN /\ accepted' = Append(accepted, lastPost'.body)
              /\ Len(SplitLines(telemetryLog')) = Len(SplitLines(telemetryLog)) + 1
         ELSE telemetryLog' = telemetryLog /\ accepted' = accepted

(* C4: the telemetry log is append-only.  In every state it is its initial   *)
(* contents followed by one complete line per request answered HTTP 200, in  *)
(* order, each line a JSON text of the value that request's body holds; a    *)
(* step never changes or removes what the log already holds, adds exactly    *)
(* one line when it answers 200 and nothing otherwise; the same body posted  *)
(* twice gives two lines.                                                    *)
C4_TelemetryAppendOnly ==
    [](LogKeepsEveryPosting) /\ [][LogOnlyGrows]_vars

\* C4's case: the same body was accepted twice after an old line, and the
\* log holds the old line and two equal new lines.
C4_Witness ==
    /\ initLog # << >>
    /\ Len(accepted) = 2
    /\ accepted[1] = accepted[2]
    /\ Len(SplitLines(telemetryLog)) = 3
    /\ SplitLines(telemetryLog)[2] = SplitLines(telemetryLog)[3]
    /\ SplitLines(telemetryLog)[1] = SplitLines(initLog)[1]

SamePair(f, g) ==
    /\ f.has_device = g.has_device /\ f.device_id = g.device_id
    /\ f.has_ts = g.has_ts /\ f.timestamp = g.timestamp

LastWriteWins ==
    \A i, j \in 1..Len(uploads) :
        (i < j /\ SamePair(uploads[i].form, uploads[j].form)) =>
            /\ uploads[i].saved = uploads[j].saved
            /\ uploads[j].saved \in DOMAIN evidenceDir
            /\ (\A k \in (j + 1)..Len(uploads) : uploads[k].saved # uploads[j].saved)
                  => evidenceDir[uploads[j].saved] = uploads[j].form.file

OtherFilesUntouched ==
    \A n \in DOMAIN evidenceDir :
        (ingestResp'.status # 200 \/ ingestResp'.detail # n) =>
            n \in DOMAIN evidenceDir' /\ evidenceDir'[n] = evidenceDir[n]

(* C5: evidence storage is keyed-overwrite, last write wins.  Once two       *)
(* uploads carrying the same device_id and the same timestamp have both      *)
(* been answered 200, they were saved under one and the same file name, that *)
(* file exists, and unless a later upload was saved under that name too its  *)
(* bytes are those of the second upload; an upload saved under another name, *)
(* or one that is refused, leaves every existing file as it was.             *)
C5_EvidenceLastWriteWins ==
    [](LastWriteWins) /\ [][OtherFilesUntouched]_vars

\* C5's case: two uploads with the same device_id and timestamp and
\* different bytes have completed; one file is there, with the second's bytes.
C5_Witness ==
    /\ Len(uploads) = 2
    /\ SamePair(uploads[1].form, uploads[2].form)
    /\ uploads[1].form.file = "img1"
    /\ uploads[2].form.file = "img2"
    /\ DOMAIN evidenceDir = {uploads[2].saved}
    /\ evidenceDir[uploads[2].saved] = "img2"

(* C6: every upload that carries a file part succeeds, with missing metadata *)
(* defaulted: the answer is HTTP 200 with status "success", the file is      *)
(* stored under the name the answer gives, and a missing device_id shows in  *)
(* that name as the placeholder "unknown".                                   *)
C6_MissingFieldsDefaulted ==
    (lastPost.route = "/api/evidence/upload" /\ lastPost.file # "") =>
        /\ ingestResp.status = 200
        /\ ingestResp.status_text = "success"
        /\ ingestResp.detail \in DOMAIN evidenceDir
        /\ evidenceDir[ingestResp.detail] = lastPost.file
        /\ ~lastPost.has_device => SubSeq(ingestResp.detail, 2, 8) = unknown

(* C7: no stored evidence file name contains a space or a colon.             *)
C7_NamesSanitized ==
    \A n \in DOMAIN evidenceDir : \A i \in 1..Len(n) : n[i] \notin {Space, ":"}

====
